---- MODULE Spec2Model ----
(***************************************************************************)
(* Model of the gemini-code-reviewer webhook handlers.                     *)
(*                                                                         *)
(* Two variants of the handler exist in the repository:                    *)
(*   "sync" - the structured handler (validateEnvironment, verifySignature,*)
(*            validatePayload, steps 1..10, catch/finally) that answers    *)
(*            the caller after the pipeline has run;                       *)
(*   "ack"  - the acknowledge-then-process handler that sends 202 first    *)
(*            and then runs the pipeline.                                  *)
(*                                                                         *)
(* JavaScript is single threaded: the code between two awaits runs         *)
(* atomically, so there is one action per segment between awaits.          *)
(***************************************************************************)
EXTENDS Integers, Sequences, FiniteSets, TLC

VARIABLES env, inv, comments

vars == <<env, inv, comments>>

----------------------------------------------------------------------------
(* JavaScript values.  Every value is a record with a tag t, so that values *)
(* of different types can be compared.                                      *)

Undefined == [t |-> "undefined"]

Null == [t |-> "null"]

Str(s) == [t |-> "str", v |-> s]

Num(k) == [t |-> "num", n |-> k]

Obj(fields) == [t |-> "obj", f |-> fields]

\* A string whose length matters, run-length encoded (see below).
Text(s) == [t |-> "text", s |-> s]

\* An array.
Arr(a) == [t |-> "arr", a |-> a]

IsArray(x) == x.t = "arr"

\* A one-character string, whichever character it is.
Char == [t |-> "char"]

\* x[0] of an array or of a string
First(x) ==
    IF x.t = "arr" /\ Len(x.a) > 0 THEN x.a[1]
    ELSE IF x.t = "str" /\ x.v # "" THEN Char
    ELSE Undefined

\* ToBoolean: undefined, null, "" and 0 are falsy.
Truthy(x) ==
    CASE x.t = "undefined" -> FALSE
      [] x.t = "null"      -> FALSE
      [] x.t = "str"       -> x.v # ""
      [] x.t = "num"       -> x.n # 0
      [] x.t = "text"      -> x.s # <<>>
      [] OTHER             -> TRUE

\* Reading a property of undefined or null throws a TypeError.
CanRead(x) == x.t \notin {"undefined", "null"}

\* x.k for a value whose properties can be read; a primitive has no own
\* data properties, an object's absent property reads as undefined.
Get(x, k) == IF x.t = "obj" /\ k \in DOMAIN x.f THEN x.f[k] ELSE Undefined

----------------------------------------------------------------------------
(* Strings whose length matters (diffs, patches, the truncation marker) are *)
(* run-length encoded: a sequence of runs [c, n], n >= 1, adjacent runs of  *)
(* different characters.  This keeps MAX_DIFF_SIZE at its real value.       *)

RECURSIVE StrLen(_)
StrLen(s) == IF s = <<>> THEN 0 ELSE Head(s).n + StrLen(Tail(s))

\* s + t
Concat(s, t) ==
    IF s = <<>> THEN t
    ELSE IF t = <<>> THEN s
    ELSE IF s[Len(s)].c = t[1].c
         THEN SubSeq(s, 1, Len(s) - 1)
                  \o <<[c |-> t[1].c, n |-> s[Len(s)].n + t[1].n]>>
                  \o Tail(t)
         ELSE s \o t

\* s.substring(0, k)
RECURSIVE Substring0(_, _)
Substring0(s, k) ==
    IF k <= 0 \/ s = <<>> THEN <<>>
    ELSE IF Head(s).n >= k THEN <<[c |-> Head(s).c, n |-> k]>>
    ELSE <<Head(s)>> \o Substring0(Tail(s), k - Head(s).n)

\* the suffix of s that starts at offset k
RECURSIVE SubstringFrom(_, _)
SubstringFrom(s, k) ==
    IF s = <<>> THEN <<>>
    ELSE IF k <= 0 THEN s
    ELSE IF Head(s).n > k
         THEN <<[c |-> Head(s).c, n |-> Head(s).n - k]>> \o Tail(s)
         ELSE SubstringFrom(Tail(s), k - Head(s).n)

EndsWith(s, t) ==
    /\ StrLen(s) >= StrLen(t)
    /\ SubstringFrom(s, StrLen(s) - StrLen(t)) = t

WhiteSpace == {" ", "\n"}

\* s.trim() === ""
TrimIsEmpty(s) == \A k \in 1..Len(s) : s[k].c \in WhiteSpace

\* "\n\n[Diff truncated due to size limit]"
TruncationMarker ==
    << [c |-> "\n", n |-> 2], [c |-> "[", n |-> 1], [c |-> "D", n |-> 1],
       [c |-> "i", n |-> 1], [c |-> "f", n |-> 2], [c |-> " ", n |-> 1],
       [c |-> "t", n |-> 1], [c |-> "r", n |-> 1], [c |-> "u", n |-> 1],
       [c |-> "n", n |-> 1], [c |-> "c", n |-> 1], [c |-> "a", n |-> 1],
       [c |-> "t", n |-> 1], [c |-> "e", n |-> 1], [c |-> "d", n |-> 1],
       [c |-> " ", n |-> 1], [c |-> "d", n |-> 1], [c |-> "u", n |-> 1],
       [c |-> "e", n |-> 1], [c |-> " ", n |-> 1], [c |-> "t", n |-> 1],
       [c |-> "o", n |-> 1], [c |-> " ", n |-> 1], [c |-> "s", n |-> 1],
       [c |-> "i", n |-> 1], [c |-> "z", n |-> 1], [c |-> "e", n |-> 1],
       [c |-> " ", n |-> 1], [c |-> "l", n |-> 1], [c |-> "i", n |-> 1],
       [c |-> "m", n |-> 1], [c |-> "i", n |-> 1], [c |-> "t", n |-> 1],
       [c |-> "]", n |-> 1] >>

MAX_DIFF_SIZE == 100000


----------------------------------------------------------------------------
(* crypto.  HMAC-SHA256 is modelled as an ideal keyed digest: two digests   *)
(* are equal exactly when key and message bytes are equal.                  *)

\* The bytes of a JSON text: the document it denotes and how it is laid out.
Bytes(doc, fmt) == [t |-> "bytes", doc |-> doc, fmt |-> fmt]

\* JSON.parse of the inbound bytes (done by the platform before the handler).
JSONparse(raw) == IF raw.t = "bytes" THEN raw.doc ELSE Undefined

\* JSON.stringify(value): the compact serialization; undefined for undefined.
JSONstringify(x) == IF x.t = "undefined" THEN Undefined ELSE Bytes(x, "compact")

\* createHmac("sha256", key).update(msg).digest("hex") for a string key.
Hmac(key, msg) == [kind |-> "hmac", key |-> key, msg |-> msg]

\* Length of the literal "sha256=".
PrefixLen == 7

\* Length of a hex encoded SHA-256 digest.
HexDigestLen == 64

\* A header string: its length and its content.
Sig(len, d) == [t |-> "sig", len |-> len, d |-> d]

\* "sha256=" + digest
Sha256Header(d) == Sig(PrefixLen + HexDigestLen, d)

\* !!signature for a header value
SigTruthy(x) == x.t = "sig" /\ x.len # 0

\* crypto.timingSafeEqual(Buffer.from(a), Buffer.from(b)): throws a
\* RangeError when the byte lengths differ.
timingSafeEqual(a, b) ==
    IF a.len # b.len THEN "throw"
    ELSE IF a = b THEN "true" ELSE "false"

----------------------------------------------------------------------------
(* The structured handler's helpers.                                        *)

RequiredEnv == {"GITHUB_TOKEN", "WEBHOOK_SECRET", "GEMINI_API_KEY"}

validateEnvironment(e) == \A key \in RequiredEnv : Truthy(e[key])

\* "true", "false" or "throw"
verifySignature(req, e) ==
    LET signature == req.sig
        payload == JSONstringify(req.body)
        secret == e["WEBHOOK_SECRET"]
    IN  IF ~SigTruthy(signature) THEN "false"
        ELSE IF secret.t # "str" \/ payload.t = "undefined" THEN "throw"
        ELSE timingSafeEqual(signature, Sha256Header(Hmac(secret.v, payload)))

\* The error message validatePayload logs, "" when the payload passes.
validatePayloadLog(req) ==
    LET body == req.body
        pull_request == Get(body, "pull_request")
        repository == Get(body, "repository")
    IN  IF ~Truthy(body) THEN "Request body is missing"
        ELSE IF ~Truthy(pull_request)
             THEN "pull_request object missing from payload"
        ELSE IF ~Truthy(repository)
             THEN "repository object missing from payload"
        ELSE IF ~Truthy(Get(repository, "owner"))
                  \/ ~Truthy(Get(Get(repository, "owner"), "login"))
             THEN "repository.owner.login missing from payload"
        ELSE IF ~Truthy(Get(repository, "name"))
             THEN "repository.name missing from payload"
        ELSE IF ~Truthy(Get(pull_request, "number"))
             THEN "pull_request.number missing from payload"
        ELSE IF ~Truthy(Get(pull_request, "base"))
                  \/ ~Truthy(Get(Get(pull_request, "base"), "sha"))
             THEN "pull_request.base.sha missing from payload"
        ELSE IF ~Truthy(Get(pull_request, "head"))
                  \/ ~Truthy(Get(Get(pull_request, "head"), "sha"))
             THEN "pull_request.head.sha missing from payload"
        ELSE ""

\* null, or the context {owner, repo, prNumber, baseSha, headSha, action}
validatePayload(req) ==
    IF validatePayloadLog(req) # "" THEN Null
    ELSE LET pull_request == Get(req.body, "pull_request")
             repository == Get(req.body, "repository")
         IN  Obj([owner    |-> Get(Get(repository, "owner"), "login"),
                  repo     |-> Get(repository, "name"),
                  prNumber |-> Get(pull_request, "number"),
                  baseSha  |-> Get(Get(pull_request, "base"), "sha"),
                  headSha  |-> Get(Get(pull_request, "head"), "sha"),
                  action   |-> Get(req.body, "action")])

RelevantActions == {Str("opened"), Str("synchronize")}

----------------------------------------------------------------------------
(* One invocation of a handler.                                             *)

\* The locals and the observable effects of an invocation that has just
\* been entered.
NewInvocation(variant, req) ==
    [ variant         |-> variant,
      req             |-> req,
      pc              |-> "start",
      statusCode      |-> 200,
      responseMessage |-> "Success",
      sent            |-> <<>>,      \* responses written to res, in order
      completionLog   |-> <<>>,      \* statusCode of "Function execution completed"
      errorLog        |-> <<>>,      \* messages passed to logger.error / console.warn
      caught          |-> <<>>,      \* the errors the catch blocks received
      order           |-> <<>>,      \* respond, signature, diff, model, comment
      auth            |-> "none",    \* none, passed, rejected, threw, skipped
      payload         |-> Null,      \* the validated context
      fetched         |-> Undefined, \* what the diff call returned
      geminiResponse  |-> [t |-> "none"], \* how the model call settled
      diff            |-> <<>>,      \* the diff local when the prompt is built
      truncated       |-> FALSE,
      prompt          |-> Null,      \* the prompt sent to the model
      reviewComment   |-> Null,
      calls           |-> [diff |-> 0, model |-> 0, comment |-> 0],
      \* how each awaited call settled: none, ok or fail
      settled         |-> [diff |-> "none", model |-> "none", comment |-> "none"] ]

\* res.status(status).json({ [key]: text })
Respond(r, status, key, text) ==
    [r EXCEPT !.sent = Append(@, [status |-> status, key |-> key,
                                  text |-> text, time |-> FALSE]),
              !.order = Append(@, "respond")]

LogError(r, msg) == [r EXCEPT !.errorLog = Append(@, msg)]

\* An error thrown by the handler's own code (a TypeError, a RangeError).
Thrown == [t |-> "throw"]

\* The error a catch block receives when an awaited call settled as o: the
\* rejection of the call, or an error thrown while its result was read.
ErrorOf(o) == IF o.t = "fail" THEN o ELSE Thrown

\* The signature was validated, with result a.
Verified(r, a) == [r EXCEPT !.auth = a, !.order = Append(@, "signature")]

\* catch (e) of the given stage
Caught(r, stage, e) ==
    [r EXCEPT !.caught = Append(@, [stage |-> stage, error |-> e])]

\* statusCode = ...; responseMessage = ...;
\* return res.status(statusCode).json({ [key]: responseMessage })
SetAndRespond(r, status, key, text) ==
    Respond([r EXCEPT !.statusCode = status, !.responseMessage = text],
            status, key, text)

\* The finally block without the res.headersSent test: it always sends.
Finally_AlwaysSends(r) ==
    [r EXCEPT !.completionLog = Append(@, r.statusCode),
              !.pc = "done",
              !.sent = Append(@, [status |-> r.statusCode,
                                  key    |-> "message",
                                  text   |-> r.responseMessage,
                                  time   |-> TRUE]),
              !.order = Append(@, "respond")]

\* The finally block of the structured handler: log the completion and send
\* the response if none was sent.
Finally(r) ==
    LET logged == [r EXCEPT !.completionLog = Append(@, r.statusCode),
                            !.pc = "done"]
    IN  IF r.sent = <<>>
        THEN [logged EXCEPT !.sent = <<[status |-> r.statusCode,
                                       key    |-> "message",
                                       text   |-> r.responseMessage,
                                       time   |-> TRUE]>>,
                            !.order = Append(@, "respond")]
        ELSE logged

\* The outer catch block followed by finally.
CatchUnexpected(r) ==
    Finally([LogError(Caught(r, "handler", Thrown),
                      "Unexpected error in webhook handler")
                EXCEPT !.statusCode = 500,
                       !.responseMessage = "Internal server error"])

\* An early "return res.status(...).json(...)" inside try, then finally.
EarlyExit(r, status, key, text) == Finally(SetAndRespond(r, status, key, text))

\* Step 2 is entered in production or when a secret is configured.
MustVerify(e) ==
    e["NODE_ENV"] = Str("production") \/ Truthy(e["WEBHOOK_SECRET"])

\* x.substring(0, 8) throws unless x is a string.
HasSubstring(x) == x.t = "str"

\* Steps 6 and 7 with the model call issued together with axios.get.
SyncStartDiff_WithModel(r, octokitOk) ==
    IF ~octokitOk
    THEN EarlyExit(LogError(Caught(r, "octokit", Thrown),
                            "Failed to initialize GitHub client"),
                   500, "error", "GitHub client initialization failed")
    ELSE [r EXCEPT !.calls.diff = @ + 1,
                   !.calls.model = @ + 1,
                   !.order = @ \o <<"diff", "model">>,
                   !.pc = "awaitDiff"]

\* Steps 6 and 7 up to the await of axios.get.
SyncStartDiff(r, octokitOk) ==
    IF ~octokitOk
    THEN EarlyExit(LogError(Caught(r, "octokit", Thrown),
                            "Failed to initialize GitHub client"),
                   500, "error", "GitHub client initialization failed")
    ELSE [r EXCEPT !.calls.diff = @ + 1,
                   !.order = Append(@, "diff"),
                   !.pc = "awaitDiff"]

\* Step 5 and the context logger, for a payload that passed validation.
SyncCheckAction(r, octokitOk) ==
    IF Get(r.payload, "action") \notin RelevantActions
    THEN EarlyExit(r, 200, "message", "Event ignored - action not relevant")
    ELSE IF ~HasSubstring(Get(r.payload, "baseSha"))
              \/ ~HasSubstring(Get(r.payload, "headSha"))
    THEN CatchUnexpected(r)
    ELSE SyncStartDiff(r, octokitOk)

\* Steps 4 and 5 without step 3's event type check.
SyncClassify_NoEventCheck(r, octokitOk) ==
    IF validatePayload(r.req) = Null
    THEN EarlyExit(LogError(r, validatePayloadLog(r.req)),
                   400, "error", "Bad Request - Invalid payload structure")
    ELSE SyncCheckAction([r EXCEPT !.payload = validatePayload(r.req)],
                         octokitOk)

\* Steps 3 and 4, then step 5.
SyncClassify(r, octokitOk) ==
    IF r.req.event # Str("pull_request")
    THEN EarlyExit(r, 200, "message", "Event ignored - not a pull request")
    ELSE IF validatePayload(r.req) = Null
    THEN EarlyExit(LogError(r, validatePayloadLog(r.req)),
                   400, "error", "Bad Request - Invalid payload structure")
    ELSE SyncCheckAction([r EXCEPT !.payload = validatePayload(r.req)],
                         octokitOk)

\* Steps 1 and 2, then the rest of the first segment.
SyncReceive(r, e, octokitOk) ==
    IF ~validateEnvironment(e)
    THEN EarlyExit(LogError(r, "Missing required environment variables"),
                   500, "error", "Server configuration error")
    ELSE IF MustVerify(e)
    THEN LET v == verifySignature(r.req, e)
         IN  CASE v = "false" ->
                    EarlyExit(Verified(LogError(r, "Signature verification failed"),
                                       "rejected"),
                              401, "error", "Unauthorized - Invalid signature")
               [] v = "throw" -> CatchUnexpected(Verified(r, "threw"))
               [] OTHER -> SyncClassify(Verified(r, "passed"), octokitOk)
    ELSE SyncClassify([r EXCEPT !.auth = "skipped"], octokitOk)

----------------------------------------------------------------------------
(* Structured handler, steps 7 to 10.                                       *)

\* Step 8's size check with >= in place of >: a diff of exactly
\* MAX_DIFF_SIZE units gets the marker too.
TruncateDiff_AtLimit(d) ==
    IF StrLen(d) >= MAX_DIFF_SIZE
    THEN Concat(Substring0(d, MAX_DIFF_SIZE), TruncationMarker)
    ELSE d

\* Step 8's size check without the marker appended.
TruncateDiff_NoMarker(d) ==
    IF StrLen(d) > MAX_DIFF_SIZE THEN Substring0(d, MAX_DIFF_SIZE) ELSE d

\* Step 8's size check: the diff local after truncation.
TruncateDiff(d) ==
    IF StrLen(d) > MAX_DIFF_SIZE
    THEN Concat(Substring0(d, MAX_DIFF_SIZE), TruncationMarker)
    ELSE d

\* The prompt template; only the embedded values are kept.
SyncPrompt(req, d) ==
    [t |-> "prompt",
     title |-> Get(Get(req.body, "pull_request"), "title"),
     diff |-> d]

\* The second segment with the rejection's response data sent back to the
\* caller in place of the fixed message.
SyncDiffReturn_EchoError(r, o) ==
    IF o.t = "fail"
    THEN EarlyExit(LogError(Caught(r, "diff", o),
                            "Failed to fetch diff from GitHub"),
                   502, "error", o.data)
    ELSE IF ~CanRead(o.data)
    THEN EarlyExit(LogError(Caught(r, "diff", Thrown),
                            "Failed to fetch diff from GitHub"),
                   502, "error", "Failed to fetch changes from GitHub")
    ELSE LET fetched == [r EXCEPT !.fetched = o.data]
         IN  IF ~Truthy(o.data)
             THEN EarlyExit(fetched, 200, "message", "No changes to review")
             ELSE IF o.data.t # "text"
             THEN CatchUnexpected(fetched)
             ELSE IF TrimIsEmpty(o.data.s)
             THEN EarlyExit(fetched, 200, "message", "No changes to review")
             ELSE [fetched EXCEPT
                      !.diff = TruncateDiff(o.data.s),
                      !.truncated = StrLen(o.data.s) > MAX_DIFF_SIZE,
                      !.prompt = SyncPrompt(r.req, TruncateDiff(o.data.s)),
                      !.calls.model = @ + 1,
                      !.order = Append(@, "model"),
                      !.pc = "awaitGemini"]

\* The second segment with step 8 testing only !diff: a diff of blanks goes
\* on to the model call.
SyncDiffReturn_NoTrim(r, o) ==
    IF o.t = "fail" \/ ~CanRead(o.data)
    THEN EarlyExit(LogError(Caught(r, "diff", ErrorOf(o)),
                            "Failed to fetch diff from GitHub"),
                   502, "error", "Failed to fetch changes from GitHub")
    ELSE LET fetched == [r EXCEPT !.fetched = o.data]
         IN  IF ~Truthy(o.data)
             THEN EarlyExit(fetched, 200, "message", "No changes to review")
             ELSE IF o.data.t # "text"
             THEN CatchUnexpected(fetched)
             ELSE [fetched EXCEPT
                      !.diff = TruncateDiff(o.data.s),
                      !.truncated = StrLen(o.data.s) > MAX_DIFF_SIZE,
                      !.prompt = SyncPrompt(r.req, TruncateDiff(o.data.s)),
                      !.calls.model = @ + 1,
                      !.order = Append(@, "model"),
                      !.pc = "awaitGemini"]

\* The second segment: axios.get settles.  o is a failure or
\* [t |-> "ok", data |-> ...].
SyncDiffReturn(r, o) ==
    IF o.t = "fail" \/ ~CanRead(o.data)
    THEN EarlyExit(LogError(Caught(r, "diff", ErrorOf(o)),
                            "Failed to fetch diff from GitHub"),
                   502, "error", "Failed to fetch changes from GitHub")
    ELSE LET fetched == [r EXCEPT !.fetched = o.data]
         IN  IF ~Truthy(o.data)
             THEN EarlyExit(fetched, 200, "message", "No changes to review")
             ELSE IF o.data.t # "text"
             THEN CatchUnexpected(fetched)
             ELSE IF TrimIsEmpty(o.data.s)
             THEN EarlyExit(fetched, 200, "message", "No changes to review")
             ELSE [fetched EXCEPT
                      !.diff = TruncateDiff(o.data.s),
                      !.truncated = StrLen(o.data.s) > MAX_DIFF_SIZE,
                      !.prompt = SyncPrompt(r.req, TruncateDiff(o.data.s)),
                      !.calls.model = @ + 1,
                      !.order = Append(@, "model"),
                      !.pc = "awaitGemini"]

\* The validation of geminiResponse.data: "invalid", "throw" or "ok".  The
\* conditions are evaluated left to right; reading a property of a null
\* first element throws.
GeminiCheck(data) ==
    LET candidates == Get(data, "candidates")
        content == Get(First(candidates), "content")
        parts == Get(content, "parts")
    IN  IF ~Truthy(data) THEN "invalid"
        ELSE IF ~Truthy(candidates) THEN "invalid"
        ELSE IF ~IsArray(candidates) THEN "invalid"
        ELSE IF Len(candidates.a) = 0 THEN "invalid"
        ELSE IF ~CanRead(First(candidates)) THEN "throw"
        ELSE IF ~Truthy(content) THEN "invalid"
        ELSE IF ~Truthy(parts) THEN "invalid"
        ELSE IF ~IsArray(parts) THEN "invalid"
        ELSE IF Len(parts.a) = 0 THEN "invalid"
        ELSE IF ~CanRead(First(parts)) THEN "throw"
        ELSE IF ~Truthy(Get(First(parts), "text")) THEN "invalid"
        ELSE "ok"

\* candidates[0].content.parts[0].text of a response that passed the check
GeminiText(data) ==
    Get(First(Get(Get(First(Get(data, "candidates")), "content"), "parts")),
        "text")

\* The fixed comment used when the review text is blank (the literal's
\* leading emoji is left out).
FallbackComment == Str("**La Cebolla dice:** No se encontraron problemas.")

\* The third segment with a failed model call answered by the default
\* comment instead of an error.
SyncGeminiReturn_DefaultOnFailure(r0, o) ==
    LET r == [r0 EXCEPT !.geminiResponse = o]
    IN
    IF o.t = "fail"
    THEN [Caught(r, "model", o) EXCEPT
             !.reviewComment = FallbackComment,
             !.calls.comment = @ + 1,
             !.order = Append(@, "comment"),
             !.pc = "awaitComment"]
    ELSE IF GeminiCheck(o.data) = "throw"
    THEN EarlyExit(LogError(Caught(r, "model", ErrorOf(o)),
                            "Failed to get review from Gemini API"),
                   502, "error", "Failed to generate code review")
    ELSE IF GeminiCheck(o.data) = "invalid"
    THEN EarlyExit(LogError(r, "Invalid Gemini API response structure"),
                   502, "error", "Invalid response from AI service")
    ELSE LET text == GeminiText(o.data)
         IN  IF text.t # "text"
             THEN EarlyExit(LogError(Caught(r, "model", Thrown),
                                     "Failed to get review from Gemini API"),
                            502, "error", "Failed to generate code review")
             ELSE [r EXCEPT
                      !.reviewComment =
                          IF TrimIsEmpty(text.s) THEN FallbackComment ELSE text,
                      !.calls.comment = @ + 1,
                      !.order = Append(@, "comment"),
                      !.pc = "awaitComment"]

\* The third segment: axios.post settles.
SyncGeminiReturn(r0, o) ==
    LET r == [r0 EXCEPT !.geminiResponse = o]
    IN
    IF o.t = "fail" \/ GeminiCheck(o.data) = "throw"
    THEN EarlyExit(LogError(Caught(r, "model", ErrorOf(o)),
                            "Failed to get review from Gemini API"),
                   502, "error", "Failed to generate code review")
    ELSE IF GeminiCheck(o.data) = "invalid"
    THEN EarlyExit(LogError(r, "Invalid Gemini API response structure"),
                   502, "error", "Invalid response from AI service")
    ELSE LET text == GeminiText(o.data)
         IN  IF text.t # "text"
             THEN EarlyExit(LogError(Caught(r, "model", Thrown),
                                     "Failed to get review from Gemini API"),
                            502, "error", "Failed to generate code review")
             ELSE [r EXCEPT
                      !.reviewComment =
                          IF TrimIsEmpty(text.s) THEN FallbackComment ELSE text,
                      !.calls.comment = @ + 1,
                      !.order = Append(@, "comment"),
                      !.pc = "awaitComment"]

\* The comment octokit.issues.createComment creates.
CreatedComment(owner, repo, number, body) ==
    [owner |-> owner, repo |-> repo, issue_number |-> number, body |-> body]

\* The last segment with one more attempt after a rejected createComment.
SyncCommentReturn_Retry(r, o) ==
    IF o.t = "ok"
    THEN Finally([r EXCEPT !.statusCode = 200,
                           !.responseMessage = "Review completed successfully"])
    ELSE IF r.calls.comment < 2
    THEN [Caught(r, "comment", o) EXCEPT
             !.calls.comment = @ + 1,
             !.order = Append(@, "comment")]
    ELSE EarlyExit(LogError(Caught(r, "comment", o),
                            "Failed to post comment to GitHub"),
                   502, "error", "Failed to post review comment")

\* The last segment: createComment settles.
SyncCommentReturn(r, o) ==
    IF o.t = "ok"
    THEN Finally([r EXCEPT !.statusCode = 200,
                           !.responseMessage = "Review completed successfully"])
    ELSE EarlyExit(LogError(Caught(r, "comment", o),
                            "Failed to post comment to GitHub"),
                   502, "error", "Failed to post review comment")

----------------------------------------------------------------------------
(* The acknowledge-then-process handler.                                    *)

\* The catch block: the error is logged, nothing else happens.
AckCatch(r, e) ==
    [LogError(Caught(r, "handler", e), "Error processing webhook")
        EXCEPT !.pc = "done"]

\* A plain return inside try.
AckReturn(r) == [r EXCEPT !.pc = "done"]

\* file.patch || ''
PatchOf(file) ==
    IF Truthy(Get(file, "patch")) THEN Get(file, "patch").s ELSE <<>>

\* files.map(file => file.patch || '').join('\n')
RECURSIVE JoinPatches(_)
JoinPatches(files) ==
    IF files = <<>> THEN <<>>
    ELSE IF Len(files) = 1 THEN PatchOf(files[1])
    ELSE Concat(Concat(PatchOf(files[1]), <<[c |-> "\n", n |-> 1]>>),
                JoinPatches(Tail(files)))

\* The values read from the body before compareCommits is called; reading
\* through an absent object throws.
AckCanReadBody(body) ==
    /\ CanRead(Get(body, "repository"))
    /\ CanRead(Get(Get(body, "repository"), "owner"))
    /\ CanRead(Get(body, "pull_request"))
    /\ CanRead(Get(Get(body, "pull_request"), "base"))
    /\ CanRead(Get(Get(body, "pull_request"), "head"))

AckContext(body) ==
    Obj([owner    |-> Get(Get(Get(body, "repository"), "owner"), "login"),
         repo     |-> Get(Get(body, "repository"), "name"),
         prNumber |-> Get(Get(body, "pull_request"), "number"),
         baseSha  |-> Get(Get(Get(body, "pull_request"), "base"), "sha"),
         headSha  |-> Get(Get(Get(body, "pull_request"), "head"), "sha"),
         action   |-> Get(body, "action")])

\* Event type and action check, then the call of compareCommits.
AckClassify(r) ==
    LET body == r.req.body
    IN  IF ~CanRead(body) THEN AckCatch(r, Thrown)
        ELSE IF r.req.event # Str("pull_request")
                  \/ Get(body, "action") \notin RelevantActions
        THEN AckReturn(r)
        ELSE IF ~AckCanReadBody(body) THEN AckCatch(r, Thrown)
        ELSE [r EXCEPT !.payload = AckContext(body),
                       !.calls.diff = @ + 1,
                       !.order = Append(@, "diff"),
                       !.pc = "awaitDiff"]

\* The first segment with the response sent once the signature has been
\* compared: 401 for a mismatch, 202 otherwise.
AckReceive_VerifyFirst(r, e) ==
    LET secret == e["WEBHOOK_SECRET"]
        payload == JSONstringify(r.req.body)
    IN  IF secret.t # "str" \/ payload.t = "undefined"
        THEN AckCatch(Respond(Verified(r, "threw"), 202, "text", "Accepted"),
                      Thrown)
        ELSE IF e["NODE_ENV"] = Str("production")
        THEN IF r.req.sig # Sha256Header(Hmac(secret.v, payload))
             THEN AckReturn(Respond(Verified(LogError(r, "Invalid signature"),
                                             "rejected"),
                                    401, "text", "Unauthorized"))
             ELSE AckClassify(Respond(Verified(r, "passed"),
                                      202, "text", "Accepted"))
        ELSE AckClassify(Respond([r EXCEPT !.auth = "skipped"],
                                 202, "text", "Accepted"))

\* The first segment: the 202, the signature comparison, the classification.
AckReceive(r, e) ==
    LET acked == Respond(r, 202, "text", "Accepted")
        secret == e["WEBHOOK_SECRET"]
        payload == JSONstringify(r.req.body)
    IN  IF secret.t # "str" \/ payload.t = "undefined"
        THEN AckCatch(Verified(acked, "threw"), Thrown)
        ELSE IF e["NODE_ENV"] = Str("production")
        THEN IF r.req.sig # Sha256Header(Hmac(secret.v, payload))
             THEN AckReturn(Verified(LogError(acked, "Invalid signature"),
                                     "rejected"))
             ELSE AckClassify(Verified(acked, "passed"))
        ELSE AckClassify([acked EXCEPT !.auth = "skipped"])

\* compareCommits settles.  o is a failure or [t |-> "ok", files |-> ...].
AckDiffReturn(r, o) ==
    IF o.t = "fail" \/ ~IsArray(o.files) THEN AckCatch(r, ErrorOf(o))
    ELSE LET d == JoinPatches(o.files.a)
             fetched == [r EXCEPT !.fetched = o.files]
         IN  IF d = <<>> \/ TrimIsEmpty(d) THEN AckReturn(fetched)
             ELSE [fetched EXCEPT
                      !.diff = d,
                      !.prompt = [t |-> "prompt", title |-> Undefined, diff |-> d],
                      !.calls.model = @ + 1,
                      !.order = Append(@, "model"),
                      !.pc = "awaitGemini"]

\* geminiResponse.data.candidates[0].content.parts[0].text can be read
AckCanReadText(data) ==
    LET candidates == Get(data, "candidates")
        content == Get(First(candidates), "content")
        parts == Get(content, "parts")
    IN  /\ CanRead(data)
        /\ CanRead(candidates)
        /\ CanRead(First(candidates))
        /\ CanRead(content)
        /\ CanRead(parts)
        /\ CanRead(First(parts))

\* axios.post settles.
AckGeminiReturn(r0, o) ==
    LET r == [r0 EXCEPT !.geminiResponse = o]
    IN
    IF o.t = "fail" \/ ~AckCanReadText(o.data) THEN AckCatch(r, ErrorOf(o))
    ELSE [r EXCEPT !.reviewComment = GeminiText(o.data),
                   !.calls.comment = @ + 1,
                   !.order = Append(@, "comment"),
                   !.pc = "awaitComment"]

\* createComment settles.
AckCommentReturn(r, o) == IF o.t = "ok" THEN AckReturn(r) ELSE AckCatch(r, o)

----------------------------------------------------------------------------
(* What the three external services can answer.                             *)

\* How far around MAX_DIFF_SIZE the lengths of the diffs are drawn.
DiffSlack == 1

\* The length of an oversized diff.
HugeDiff == 150000

\* The largest number of changed files the host lists.
MaxFiles == 2

Run(c, n) == <<[c |-> c, n |-> n]>>

DiffLens ==
    {1, HugeDiff} \cup ((MAX_DIFF_SIZE - DiffSlack)..(MAX_DIFF_SIZE + DiffSlack))

DiffTexts ==
    {<<>>}
      \cup {Run(c, n) : c \in {"a", " "}, n \in DiffLens}
      \cup {Concat(Run("a", MAX_DIFF_SIZE - k), Run(" ", 2 * k)) : k \in 0..DiffSlack}
      \cup {Concat(Run("a", 1), TruncationMarker)}

\* A rejected call: the error's code, the HTTP status and the response data
\* of the service (0 and "" when there was no response).
Failure(code, status, data) ==
    [t |-> "fail", code |-> code, status |-> status, data |-> data]

\* axios gave up after its timeout.
TimedOut == Failure("ECONNABORTED", 0, "")

\* The ways a call can fail: a timeout, a refusal, a server error whose
\* response echoes the request's credential.
Failures ==
    {TimedOut, Failure("ERR_BAD_REQUEST", 401, "Bad credentials"),
     Failure("ERR_BAD_RESPONSE", 500, "key")}

\* What createComment can settle as.
CommentOutcomes == Failures \cup {[t |-> "ok"]}

SyncDiffOutcomes ==
    Failures
      \cup {[t |-> "ok", data |-> d] :
               d \in {Undefined, Obj([message |-> Str("Not Found")])}
                       \cup {Text(s) : s \in DiffTexts}}

Patches == {Undefined, Text(Run("a", 1)), Text(Run(" ", 2))}

Files == {Obj([filename |-> Str("f"), patch |-> p]) : p \in Patches}

RECURSIVE SeqsUpTo(_, _)
SeqsUpTo(S, n) ==
    IF n = 0 THEN {<<>>}
    ELSE LET shorter == SeqsUpTo(S, n - 1)
         IN  shorter \cup {Append(q, x) : q \in shorter, x \in S}

AckDiffOutcomes ==
    Failures \cup {[t |-> "ok", files |-> Undefined]}
      \cup {[t |-> "ok", files |-> Arr(fs)] : fs \in SeqsUpTo(Files, MaxFiles)}

ReviewTexts == {Undefined, Num(1), Text(<<>>), Text(Run(" ", 3)), Text(Run("r", 5))}

PartsValues ==
    {Undefined, Str("parts"), Arr(<<>>), Arr(<<Null>>)}
      \cup {Arr(<<Obj([text |-> x])>>) : x \in ReviewTexts}

CandidatesValues ==
    {Undefined, Str("candidates"), Arr(<<>>), Arr(<<Null>>),
     Arr(<<Obj([content |-> Undefined])>>)}
      \cup {Arr(<<Obj([content |-> Obj([parts |-> p])])>>) : p \in PartsValues}

GeminiOutcomes ==
    Failures \cup {[t |-> "ok", data |-> Undefined]}
      \cup {[t |-> "ok", data |-> Obj([candidates |-> c])] : c \in CandidatesValues}

----------------------------------------------------------------------------
(* Actions: one per segment between two awaits, per handler.                *)

InvIds == {"i1", "i2"}

Step(i, r) == inv' = [inv EXCEPT ![i] = r]

\* The awaited call of the given stage settles as o and the handler resumes.
Resumed(r, stage, o) == [r EXCEPT !.settled[stage] = o.t]

DoSyncReceive(i) ==
    /\ inv[i].variant = "sync" /\ inv[i].pc = "start"
    /\ \E octokitOk \in BOOLEAN : Step(i, SyncReceive(inv[i], env, octokitOk))
    /\ UNCHANGED <<env, comments>>

DoSyncDiffReturn(i) ==
    /\ inv[i].variant = "sync" /\ inv[i].pc = "awaitDiff"
    /\ \E o \in SyncDiffOutcomes :
          Step(i, SyncDiffReturn(Resumed(inv[i], "diff", o), o))
    /\ UNCHANGED <<env, comments>>

DoSyncGeminiReturn(i) ==
    /\ inv[i].variant = "sync" /\ inv[i].pc = "awaitGemini"
    /\ \E o \in GeminiOutcomes :
          Step(i, SyncGeminiReturn(Resumed(inv[i], "model", o), o))
    /\ UNCHANGED <<env, comments>>

PublishedBy(r) ==
    CreatedComment(Get(r.payload, "owner"), Get(r.payload, "repo"),
                   Get(r.payload, "prNumber"), r.reviewComment)

\* createComment settles, with a comment equal to one already published
\* dropped.
DoSyncCommentReturn_Dedup(i) ==
    /\ inv[i].variant = "sync" /\ inv[i].pc = "awaitComment"
    /\ \E o \in CommentOutcomes :
          /\ Step(i, SyncCommentReturn(Resumed(inv[i], "comment", o), o))
          /\ comments' = IF o.t = "ok"
                            /\ \A k \in 1..Len(comments) :
                                  comments[k] # PublishedBy(inv[i])
                         THEN Append(comments, PublishedBy(inv[i]))
                         ELSE comments
    /\ UNCHANGED env

DoSyncCommentReturn(i) ==
    /\ inv[i].variant = "sync" /\ inv[i].pc = "awaitComment"
    /\ \E o \in CommentOutcomes :
          /\ Step(i, SyncCommentReturn(Resumed(inv[i], "comment", o), o))
          /\ comments' = IF o.t = "ok"
                         THEN Append(comments, PublishedBy(inv[i]))
                         ELSE comments
    /\ UNCHANGED env

DoAckReceive(i) ==
    /\ inv[i].variant = "ack" /\ inv[i].pc = "start"
    /\ Step(i, AckReceive(inv[i], env))
    /\ UNCHANGED <<env, comments>>

DoAckDiffReturn(i) ==
    /\ inv[i].variant = "ack" /\ inv[i].pc = "awaitDiff"
    /\ \E o \in AckDiffOutcomes :
          Step(i, AckDiffReturn(Resumed(inv[i], "diff", o), o))
    /\ UNCHANGED <<env, comments>>

DoAckGeminiReturn(i) ==
    /\ inv[i].variant = "ack" /\ inv[i].pc = "awaitGemini"
    /\ \E o \in GeminiOutcomes :
          Step(i, AckGeminiReturn(Resumed(inv[i], "model", o), o))
    /\ UNCHANGED <<env, comments>>

DoAckCommentReturn(i) ==
    /\ inv[i].variant = "ack" /\ inv[i].pc = "awaitComment"
    /\ \E o \in CommentOutcomes :
          /\ Step(i, AckCommentReturn(Resumed(inv[i], "comment", o), o))
          /\ comments' = IF o.t = "ok"
                         THEN Append(comments, PublishedBy(inv[i]))
                         ELSE comments
    /\ UNCHANGED env

\* The awaited call is made with a timeout: axios.get (6000 ms, and the
\* AbortController) and axios.post (15000 ms) of the structured handler.
\* createComment, and every call of the acknowledge handler, have none.
HasTimeout(r) == r.variant = "sync" /\ r.pc \in {"awaitDiff", "awaitGemini"}

Awaiting == {"awaitDiff", "awaitGemini", "awaitComment"}

\* The service never replies to a call made without a timeout: the await
\* never resumes.
DoNeverSettles(i) ==
    /\ inv[i].pc \in Awaiting /\ ~HasTimeout(inv[i])
    /\ Step(i, [inv[i] EXCEPT !.pc = "hung"])
    /\ UNCHANGED <<env, comments>>

Next ==
    \E i \in InvIds :
        \/ DoSyncReceive(i)
        \/ DoSyncDiffReturn(i)
        \/ DoSyncGeminiReturn(i)
        \/ DoSyncCommentReturn(i)
        \/ DoAckReceive(i)
        \/ DoAckDiffReturn(i)
        \/ DoAckGeminiReturn(i)
        \/ DoAckCommentReturn(i)
        \/ DoNeverSettles(i)

----------------------------------------------------------------------------
(* Inputs: the process environment and the inbound request.                 *)

Env(token, secret, key, nodeEnv) ==
    [GITHUB_TOKEN |-> token, WEBHOOK_SECRET |-> secret,
     GEMINI_API_KEY |-> key, NODE_ENV |-> nodeEnv]

SecretValues == {Undefined, Str(""), Str("s1")}

NodeEnvValues == {Undefined, Str("production"), Str("development")}

\* Every credential configured, in production.
ProductionEnv == Env(Str("ghp"), Str("s1"), Str("key"), Str("production"))

Req(sig, event, raw) ==
    [sig |-> sig, event |-> event, raw |-> raw, body |-> JSONparse(raw)]

PullRequest(number, base, head, title) ==
    Obj([number |-> number, base |-> base, head |-> head, title |-> title])

Repository(owner, name) == Obj([owner |-> owner, name |-> name])

Body(action, pr, repo) ==
    Obj([action |-> action, pull_request |-> pr, repository |-> repo])

GoodPullRequest ==
    PullRequest(Num(42), Obj([sha |-> Str("b1")]), Obj([sha |-> Str("h1")]),
                Str("Fix bug"))

GoodRepository == Repository(Obj([login |-> Str("octo")]), Str("repo"))

GoodBody(action) == Body(Str(action), GoodPullRequest, GoodRepository)

ShaValues == {Undefined, Str("c0ffee"), Num(7)}

ShaHolders == {Undefined} \cup {Obj([sha |-> v]) : v \in ShaValues}

PullRequests ==
    {Undefined}
      \cup {PullRequest(n, b, h, t) :
               n \in {Undefined, Num(42)}, b \in ShaHolders, h \in ShaHolders,
               t \in {Undefined, Str("Fix bug")}}

Repositories ==
    {Undefined}
      \cup {Repository(o, n) :
               o \in {Undefined, Obj([login |-> Undefined]),
                      Obj([login |-> Str("octo")])},
               n \in {Undefined, Str("repo")}}

ActionValues == {Undefined, Str("opened"), Str("synchronize"), Str("closed")}

EventValues == {Undefined, Str("pull_request"), Str("push")}

\* Parsed bodies of every shape.
Bodies ==
    {Null} \cup {Body(a, pr, repo) :
                    a \in ActionValues, pr \in PullRequests, repo \in Repositories}

\* A few bodies: complete ones, one without repository, the JSON null.
FewBodies ==
    {Null, GoodBody("opened"), GoodBody("closed"),
     Body(Str("opened"), GoodPullRequest, Undefined)}

Layouts == {"compact", "spaced"}

\* The inbound bytes for a set of documents; undefined when there is no body.
RawsOf(docs) == {Undefined} \cup {Bytes(d, l) : d \in docs, l \in Layouts}

Junk == [kind |-> "junk"]

JunkLens == {0, PrefixLen, PrefixLen + HexDigestLen, PrefixLen + HexDigestLen + 1}

\* The keys a sender may sign with: the empty key, the shared secret, another.
SignerKeys == {"", "s1", "s2"}

\* The messages a sender may sign for a request with the given bytes: the
\* bytes themselves, their compact re-serialization, or something else.
SignedMessages(raw) ==
    {m \in {raw, JSONstringify(JSONparse(raw))} : m.t = "bytes"}
       \cup {Bytes(Str("other"), "compact")}

\* Every value of the signature header tried for a request.
SigValues(raw) ==
    {Undefined}
      \cup {Sig(n, Junk) : n \in JunkLens}
      \cup {Sha256Header(Hmac(k, m)) : k \in SignerKeys, m \in SignedMessages(raw)}

\* The header GitHub sends: the digest of the exact bytes under the secret.
GitHubSig(raw) == Sha256Header(Hmac("s1", raw))

\* The header the handlers expect.
ExpectedSig(raw) == Sha256Header(Hmac("s1", JSONstringify(JSONparse(raw))))

Variants == {"sync", "ack"}

\* An invocation slot that is not used.
Off == [NewInvocation("sync", Req(Undefined, Undefined, Undefined))
           EXCEPT !.pc = "off"]

Single(variant, req) == [i \in InvIds |-> IF i = "i1"
                                          THEN NewInvocation(variant, req)
                                          ELSE Off]

\* Baseline: complete requests as GitHub sends them, every credential
\* configured.
Init ==
    /\ env \in {Env(Str("ghp"), Str("s1"), Str("key"), n) : n \in NodeEnvValues}
    /\ \E v \in Variants, a \in {"opened", "synchronize", "closed"},
          l \in Layouts, e \in EventValues :
          inv = Single(v, Req(GitHubSig(Bytes(GoodBody(a), l)), e,
                              Bytes(GoodBody(a), l)))
    /\ comments = <<>>

Spec == Init /\ [][Next]_vars

\* The runtime enters the handler for every request, and the event loop
\* resumes the handler whenever an awaited call has settled.  Whether a call
\* made without a timeout settles is up to the service (DoNeverSettles).
Fairness ==
    \A i \in InvIds :
        /\ WF_vars(DoSyncReceive(i))
        /\ WF_vars(DoSyncDiffReturn(i))
        /\ WF_vars(DoSyncGeminiReturn(i))
        /\ WF_vars(DoSyncCommentReturn(i))
        /\ WF_vars(DoAckReceive(i))
        /\ WF_vars(DoAckDiffReturn(i))
        /\ WF_vars(DoAckGeminiReturn(i))
        /\ WF_vars(DoAckCommentReturn(i))

FairSpec == Init /\ [][Next]_vars /\ Fairness

\* Authentication: every environment, every signature header, few bodies.
InitAuth ==
    /\ env \in {Env(t, s, Str("key"), n) :
                   t \in {Undefined, Str("ghp")}, s \in SecretValues,
                   n \in NodeEnvValues}
    /\ \E v \in Variants, raw \in RawsOf({Null, GoodBody("opened")}),
          e \in {Str("pull_request"), Str("push")} :
          \E sig \in SigValues(raw) : inv = Single(v, Req(sig, e, raw))
    /\ comments = <<>>

SpecAuth == InitAuth /\ [][Next]_vars

\* Classification and normalization: bodies of every shape, signed as the
\* handlers expect.
InitPayload ==
    /\ env = ProductionEnv
    /\ \E v \in Variants, e \in EventValues :
          \E d \in IF v = "sync" THEN Bodies ELSE FewBodies :
             inv = Single(v, Req(ExpectedSig(Bytes(d, "compact")), e,
                                 Bytes(d, "compact")))
    /\ comments = <<>>

SpecPayload == InitPayload /\ [][Next]_vars

----------------------------------------------------------------------------
(* Properties.                                                              *)

\* The header the handlers compute for invocation i (the secret is a string).
ComputedSig(i) ==
    Sha256Header(Hmac(env["WEBHOOK_SECRET"].v, JSONstringify(inv[i].req.body)))

\* The number of outbound calls invocation i has started.
CallsStarted(i) ==
    inv[i].calls.diff + inv[i].calls.model + inv[i].calls.comment

\* The 401 response of the structured handler.
Unauthorized ==
    [status |-> 401, key |-> "error",
     text |-> "Unauthorized - Invalid signature", time |-> FALSE]

\* C1: for every request with a body, verifySignature accepts exactly when the
\* provided header equals "sha256=" + HMAC(secret, payload), and rejects every
\* other header value, of any length, by returning false: it never throws.
C1_AcceptsIffEqualNeverThrows ==
    \A i \in InvIds :
        (inv[i].variant = "sync" /\ inv[i].auth # "none"
            /\ inv[i].req.raw.t = "bytes")
        => /\ inv[i].auth \in {"passed", "rejected"}
           /\ (inv[i].auth = "passed") <=> (inv[i].req.sig = ComputedSig(i))

\* C2: in the structured handler with every credential configured, a request
\* (with a body) whose signature header is missing or differs from the
\* expected digest ends with status 401 and the one generic body, whatever
\* the header's length.
C2_MismatchEnds401 ==
    \A i \in InvIds :
        (inv[i].variant = "sync" /\ inv[i].pc = "done"
            /\ validateEnvironment(env) /\ inv[i].req.raw.t = "bytes"
            /\ inv[i].req.sig # ComputedSig(i))
        => inv[i].sent = <<Unauthorized>>

\* C3: the expected digest is the HMAC of the exact inbound bytes: wherever
\* the signature was checked, the request is authenticated exactly when the
\* header is the digest of the raw body under the shared secret.
C3_DigestOverRawBytes ==
    \A i \in InvIds :
        (inv[i].auth \in {"passed", "rejected", "threw"}
            /\ inv[i].req.raw.t = "bytes" /\ Truthy(env["WEBHOOK_SECRET"]))
        => ((inv[i].auth = "passed")
              <=> (inv[i].req.sig
                     = Sha256Header(Hmac(env["WEBHOOK_SECRET"].v, inv[i].req.raw))))

\* C4: (a) with the secret not set in production no outbound call is
\* started; (b) an invocation that skipped the signature check starts an
\* outbound call only in a non-production environment with the secret
\* unconfigured; (c) with a secret configured, a request whose
\* signature is missing or mismatched starts no outbound call.
C4_FailClosed ==
    \A i \in InvIds :
        CallsStarted(i) > 0
        => /\ ~(env["WEBHOOK_SECRET"] = Undefined
                  /\ env["NODE_ENV"] = Str("production"))
           /\ inv[i].auth = "skipped"
                => /\ env["NODE_ENV"] # Str("production")
                   /\ ~Truthy(env["WEBHOOK_SECRET"])
           /\ Truthy(env["WEBHOOK_SECRET"]) => inv[i].req.sig = ComputedSig(i)


\* C5: whenever an invocation has started the diff fetch, the model call or
\* the comment publication, its event-type header is exactly "pull_request"
\* and its body's action is "opened" or "synchronize".
C5_CallsOnlyForRelevantPullRequest ==
    \A i \in InvIds :
        CallsStarted(i) > 0
        => /\ inv[i].req.event = Str("pull_request")
           /\ Get(inv[i].req.body, "action") \in RelevantActions

\* A relevant pull-request event has gone through to the comment publication.
C5_Witness ==
    \E i \in InvIds :
        /\ inv[i].calls.comment > 0
        /\ inv[i].req.event = Str("pull_request")
        /\ Get(inv[i].req.body, "action") = Str("synchronize")

\* C6: in the structured handler, an authenticated request (body an object)
\* whose event type is not "pull_request" or whose action is not opened or
\* synchronize is answered 200 with a message, whatever else the body holds.
C6_IrrelevantIsIgnored200 ==
    \A i \in InvIds :
        (inv[i].variant = "sync" /\ inv[i].pc = "done"
            /\ inv[i].auth = "passed" /\ inv[i].req.body.t = "obj"
            /\ (inv[i].req.event # Str("pull_request")
                  \/ Get(inv[i].req.body, "action") \notin RelevantActions))
        => /\ Len(inv[i].sent) = 1
           /\ inv[i].sent[1].status = 200
           /\ inv[i].sent[1].key = "message"

\* The field a validatePayload message is about.
MissingField(msg) ==
    CASE msg = "Request body is missing"                     -> "body"
      [] msg = "pull_request object missing from payload"    -> "pull_request"
      [] msg = "repository object missing from payload"      -> "repository"
      [] msg = "repository.owner.login missing from payload" -> "owner.login"
      [] msg = "repository.name missing from payload"        -> "name"
      [] msg = "pull_request.number missing from payload"    -> "number"
      [] msg = "pull_request.base.sha missing from payload"  -> "base.sha"
      [] msg = "pull_request.head.sha missing from payload"  -> "head.sha"
      [] OTHER                                               -> ""

\* C7: in the structured handler, an authenticated pull-request event with a
\* relevant action and a missing required field is answered 400, and the text
\* returned to the caller names the first missing field.
C7_MissingFieldNamedToCaller ==
    \A i \in InvIds :
        (inv[i].variant = "sync" /\ inv[i].pc = "done"
            /\ inv[i].auth = "passed"
            /\ inv[i].req.event = Str("pull_request")
            /\ Get(inv[i].req.body, "action") \in RelevantActions
            /\ validatePayloadLog(inv[i].req) # "")
        => /\ Len(inv[i].sent) = 1
           /\ inv[i].sent[1].status = 400
           /\ inv[i].sent[1].text
                \in {validatePayloadLog(inv[i].req),
                     MissingField(validatePayloadLog(inv[i].req))}

\* C8: a context that validatePayload returns and the handler passes on (the
\* action is relevant) is complete: owner, repository name and both commit
\* ids are strings and the PR number is a number; no invocation with such a
\* context fails unexpectedly.
C8_ContextComplete ==
    \A i \in InvIds :
        (inv[i].variant = "sync" /\ inv[i].payload # Null
            /\ Get(inv[i].payload, "action") \in RelevantActions)
        => /\ Get(inv[i].payload, "owner").t = "str"
           /\ Get(inv[i].payload, "repo").t = "str"
           /\ Get(inv[i].payload, "prNumber").t = "num"
           /\ Get(inv[i].payload, "baseSha").t = "str"
           /\ Get(inv[i].payload, "headSha").t = "str"
           /\ "Unexpected error in webhook handler"
                 \notin {inv[i].errorLog[k] : k \in 1..Len(inv[i].errorLog)}

\* C9: in the structured handler, for a retrieved diff longer than
\* MAX_DIFF_SIZE the text embedded in the prompt is the first MAX_DIFF_SIZE
\* units of the diff followed by the truncation marker; for a diff of at most
\* MAX_DIFF_SIZE units it is the diff unchanged.
C9_PromptDiffExact ==
    \A i \in InvIds :
        (inv[i].variant = "sync" /\ inv[i].prompt # Null)
        => LET d == inv[i].fetched.s
               p == inv[i].prompt.diff
           IN  IF StrLen(d) > MAX_DIFF_SIZE
               THEN /\ StrLen(p) = MAX_DIFF_SIZE + StrLen(TruncationMarker)
                    /\ Substring0(p, MAX_DIFF_SIZE) = Substring0(d, MAX_DIFF_SIZE)
                    /\ SubstringFrom(p, MAX_DIFF_SIZE) = TruncationMarker
               ELSE p = d

\* A diff of HugeDiff units was retrieved and the model call was started.
C9_Witness ==
    \E i \in InvIds :
        /\ inv[i].variant = "sync" /\ inv[i].calls.model > 0
        /\ inv[i].prompt # Null
        /\ StrLen(inv[i].fetched.s) = HugeDiff

\* C10 as stated: the diff handed to the Review Synthesizer is never longer
\* than MAX_DIFF_SIZE, and a truncated one ends with the truncation marker.
C10_PayloadWithinMax ==
    \A i \in InvIds :
        (inv[i].variant = "sync" /\ inv[i].prompt # Null)
        => /\ StrLen(inv[i].prompt.diff) <= MAX_DIFF_SIZE
           /\ inv[i].truncated => EndsWith(inv[i].prompt.diff, TruncationMarker)

\* C10 amended: the diff handed to the Review Synthesizer is never longer than
\* MAX_DIFF_SIZE plus the length of the truncation marker; a truncated one
\* has exactly that length and ends with the marker, an untruncated one is
\* at most MAX_DIFF_SIZE long.
C10_PayloadWithinMaxPlusMarker ==
    \A i \in InvIds :
        (inv[i].variant = "sync" /\ inv[i].prompt # Null)
        => /\ StrLen(inv[i].prompt.diff)
                 <= MAX_DIFF_SIZE + StrLen(TruncationMarker)
           /\ inv[i].truncated
                 => /\ EndsWith(inv[i].prompt.diff, TruncationMarker)
                    /\ StrLen(inv[i].prompt.diff)
                          = MAX_DIFF_SIZE + StrLen(TruncationMarker)
           /\ ~inv[i].truncated => StrLen(inv[i].prompt.diff) <= MAX_DIFF_SIZE

\* A truncated diff has been handed to the model call.
C10_Witness ==
    \E i \in InvIds :
        /\ inv[i].variant = "sync" /\ inv[i].prompt # Null
        /\ inv[i].truncated
        /\ inv[i].pc = "awaitGemini"

\* The diff invocation i retrieved is a string that is empty or trims to the
\* empty string (for the acknowledge handler: the joined patches).
RetrievedBlankDiff(i) ==
    IF inv[i].variant = "sync"
    THEN inv[i].fetched.t = "text" /\ TrimIsEmpty(inv[i].fetched.s)
    ELSE inv[i].fetched.t = "arr" /\ TrimIsEmpty(JoinPatches(inv[i].fetched.a))

\* The EmptyDiff response of the structured handler.
NoChanges ==
    [status |-> 200, key |-> "message", text |-> "No changes to review",
     time |-> FALSE]

\* C11: whenever the diff fetch succeeded and the retrieved diff is empty or
\* trims to the empty string, the invocation has terminated, the structured
\* handler has answered 200 with the message "No changes to review", and the
\* invocation has started neither the model call nor the comment publication
\* (in no reachable state, hence never).
C11_BlankDiffEndsEmptyDiff ==
    \A i \in InvIds :
        RetrievedBlankDiff(i)
        => /\ inv[i].pc = "done"
           /\ inv[i].calls.model = 0 /\ inv[i].calls.comment = 0
           /\ inv[i].prompt = Null
           /\ inv[i].variant = "sync" => inv[i].sent = <<NoChanges>>

\* The structured handler retrieved a non-empty diff made of blanks only.
C11_Witness ==
    \E i \in InvIds :
        /\ inv[i].variant = "sync" /\ inv[i].pc = "done"
        /\ inv[i].fetched.t = "text" /\ TrimIsEmpty(inv[i].fetched.s)
        /\ StrLen(inv[i].fetched.s) > 0
        /\ inv[i].calls.diff = 1

\* The model call of invocation i returned a response whose text can be read:
\* a non-empty candidates list, a first candidate with non-empty parts, a
\* first part.
ReadableResponse(i) ==
    /\ inv[i].geminiResponse.t = "ok"
    /\ AckCanReadText(inv[i].geminiResponse.data)

\* The text of a readable response is a string that is empty or blank.
BlankReview(i) ==
    /\ ReadableResponse(i)
    /\ GeminiText(inv[i].geminiResponse.data).t = "text"
    /\ TrimIsEmpty(GeminiText(inv[i].geminiResponse.data).s)

\* C12: in the structured handler, whenever the model returned a well-formed
\* response whose text is the empty string or only whitespace, the comment
\* handed to the publication is exactly the fixed default message, the
\* publication was started, and the invocation does not end in an error
\* unless the publication itself fails.
C12_BlankReviewGetsDefault ==
    \A i \in InvIds :
        (inv[i].variant = "sync" /\ BlankReview(i))
        => /\ inv[i].reviewComment = FallbackComment
           /\ inv[i].calls.comment = 1
           /\ inv[i].pc = "done"
                => inv[i].statusCode = 200
                     \/ inv[i].responseMessage = "Failed to post review comment"

\* The model call of invocation i returned a response that is malformed at
\* some nesting level: no data, candidates missing, not a list or empty,
\* first candidate null or without content, parts missing, not a list or
\* empty, first part null or without text.
MalformedResponse(i) ==
    LET data == inv[i].geminiResponse.data
        candidates == Get(data, "candidates")
        content == Get(First(candidates), "content")
        parts == Get(content, "parts")
    IN  /\ inv[i].geminiResponse.t = "ok"
        /\ \/ ~CanRead(data)
           \/ ~IsArray(candidates) \/ ~CanRead(First(candidates))
           \/ ~IsArray(parts) \/ ~CanRead(First(parts))
           \/ Get(First(parts), "text") = Undefined

\* The 502 responses of the model stage of the structured handler.
ModelStageErrors ==
    {[status |-> 502, key |-> "error", text |-> m, time |-> FALSE] :
        m \in {"Invalid response from AI service",
               "Failed to generate code review"}}

\* C13: whenever the model returned a malformed response, the invocation has
\* terminated without starting the comment publication (so no comment is
\* published) and without an unexpected error; the structured handler has
\* answered 502 with one of the model stage's generic messages.
C13_MalformedEndsUpstreamError ==
    \A i \in InvIds :
        MalformedResponse(i)
        => /\ inv[i].pc = "done"
           /\ inv[i].calls.comment = 0
           /\ "Unexpected error in webhook handler"
                 \notin {inv[i].errorLog[k] : k \in 1..Len(inv[i].errorLog)}
           /\ inv[i].variant = "sync"
                => \E m \in ModelStageErrors : inv[i].sent = <<m>>

\* The body the structured handler sends when the call of a stage failed.
StageErrorMessage(stage) ==
    CASE stage = "diff"    -> "Failed to fetch changes from GitHub"
      [] stage = "model"   -> "Failed to generate code review"
      [] stage = "comment" -> "Failed to post review comment"
      [] OTHER             -> ""

\* The outbound calls of the stages that follow the given one.
LaterCalls(i, stage) ==
    CASE stage = "diff"  -> inv[i].calls.model + inv[i].calls.comment
      [] stage = "model" -> inv[i].calls.comment
      [] OTHER           -> 0

\* C14: in the structured handler, whenever the diff fetch, the model call or
\* the comment publication was rejected (an error response or a timeout),
\* the invocation has terminated with status 502 and the generic message of
\* that stage, no later stage's call was started, the failed call was issued
\* once only, and after a diff or model failure no comment is published.
C14_FailedCallEnds502 ==
    \A i \in InvIds :
        inv[i].variant = "sync"
        => \A k \in 1..Len(inv[i].caught) :
              LET c == inv[i].caught[k]
              IN  (c.error.t = "fail")
                  => /\ inv[i].pc = "done"
                     /\ inv[i].sent
                          = <<[status |-> 502, key |-> "error",
                               text |-> StageErrorMessage(c.stage),
                               time |-> FALSE]>>
                     /\ LaterCalls(i, c.stage) = 0
                     /\ inv[i].calls[c.stage] = 1
                     /\ c.stage \in {"diff", "model"} => comments = <<>>

\* The model call of the structured handler timed out.
C14_Witness ==
    \E i \in InvIds :
        /\ inv[i].variant = "sync" /\ inv[i].pc = "done"
        /\ inv[i].caught = <<[stage |-> "model", error |-> TimedOut]>>
        /\ inv[i].calls.model = 1

\* The status codes of the error table.
TableStatuses == {200, 400, 401, 500, 502}

\* C15: every terminated invocation of the structured handler (for a request
\* with a body) has sent exactly one response, with a status of the table,
\* and that status is the one the table gives to the kind of outcome reached:
\* 500 for a missing credential, 401 for a missing or mismatched signature,
\* 200 for an authenticated event that is not a pull request, 400 for an
\* authenticated pull-request event with a missing field, 502 for a rejected
\* outbound call.
C15_StatusOfOutcomeKind ==
    \A i \in InvIds :
        (inv[i].variant = "sync" /\ inv[i].pc = "done"
            /\ inv[i].req.raw.t = "bytes")
        => /\ Len(inv[i].sent) = 1
           /\ inv[i].sent[1].status \in TableStatuses
           /\ ~validateEnvironment(env) => inv[i].sent[1].status = 500
           /\ (validateEnvironment(env) /\ inv[i].req.sig # ComputedSig(i))
                => inv[i].sent[1].status = 401
           /\ (inv[i].auth = "passed" /\ inv[i].req.event # Str("pull_request"))
                => inv[i].sent[1].status = 200
           /\ (inv[i].auth = "passed" /\ inv[i].req.event = Str("pull_request")
                 /\ validatePayloadLog(inv[i].req) # "")
                => inv[i].sent[1].status = 400
           /\ (\E k \in 1..Len(inv[i].caught) : inv[i].caught[k].error.t = "fail")
                => inv[i].sent[1].status = 502

----------------------------------------------------------------------------
(* Two invocations of the structured handler for the same request, side by *)
(* side (or one of the acknowledge handler).                                *)

ApiKeys == {Str("key"), Str("key2")}

\* A relevant pull-request event, signed as the handlers expect.
OpenedRequest ==
    Req(ExpectedSig(Bytes(GoodBody("opened"), "compact")), Str("pull_request"),
        Bytes(GoodBody("opened"), "compact"))

InitPair ==
    /\ env \in {Env(Str("ghp"), Str("s1"), k, Str("production")) : k \in ApiKeys}
    /\ \/ inv = [i \in InvIds |-> NewInvocation("sync", OpenedRequest)]
       \/ inv = Single("ack", OpenedRequest)
    /\ comments = <<>>

SpecPair == InitPair /\ [][Next]_vars

\* The texts the handlers send to the caller: string literals of the source.
GenericMessages ==
    {"Server configuration error", "Unauthorized - Invalid signature",
     "Event ignored - not a pull request",
     "Bad Request - Invalid payload structure",
     "Event ignored - action not relevant",
     "GitHub client initialization failed",
     "Failed to fetch changes from GitHub", "No changes to review",
     "Invalid response from AI service", "Failed to generate code review",
     "Failed to post review comment", "Review completed successfully",
     "Internal server error", "Accepted"}

\* The stage an invocation reached (the calls it started) and the kind of
\* outcome it reached there (the fixed messages it logged on its way).
OutcomeAtStage(i) == <<inv[i].calls, inv[i].errorLog>>

\* C16: every response body is one of the fixed generic messages, whatever
\* the credentials configured; and two terminated invocations that reached
\* the same kind of outcome at the same stage have sent the same status and
\* body, whatever the errors their outbound calls were rejected with.
C16_ResponseIndependentOfErrors ==
    /\ \A i \in InvIds : \A k \in 1..Len(inv[i].sent) :
          inv[i].sent[k].text \in GenericMessages
    /\ \A i, j \in InvIds :
          (inv[i].pc = "done" /\ inv[j].pc = "done"
              /\ OutcomeAtStage(i) = OutcomeAtStage(j))
          => inv[i].sent = inv[j].sent

\* Two invocations of the structured handler ended at the same stage in the
\* same way, after rejections with different contents.
C16_Witness ==
    \E i, j \in InvIds :
        /\ inv[i].variant = "sync" /\ inv[i].pc = "done" /\ inv[j].pc = "done"
        /\ OutcomeAtStage(i) = OutcomeAtStage(j)
        /\ Len(inv[i].caught) = 1 /\ Len(inv[j].caught) = 1
        /\ inv[i].caught[1].error.t = "fail" /\ inv[j].caught[1].error.t = "fail"
        /\ inv[i].caught[1].error.data # inv[j].caught[1].error.data

----------------------------------------------------------------------------
(* Answering the caller.                                                    *)

\* C17, as a property of states: no invocation is left waiting for ever on an
\* outbound call before it has answered the caller.
C17_NeverLeftWaiting ==
    \A i \in InvIds : inv[i].pc = "hung" => inv[i].sent # <<>>

\* C18: every response of the structured handler carries exactly one of the
\* keys message and error, message when the status is below 400 and error
\* otherwise, together with the elapsed time.
C18_StructuredResult ==
    \A i \in InvIds :
        inv[i].variant = "sync"
        => \A k \in 1..Len(inv[i].sent) :
              /\ inv[i].sent[k].key \in {"message", "error"}
              /\ (inv[i].sent[k].key = "message") <=> (inv[i].sent[k].status < 400)
              /\ inv[i].sent[k].time

\* The acknowledgement of the acknowledge-then-process handler.
Accepted == [status |-> 202, key |-> "text", text |-> "Accepted", time |-> FALSE]

\* C19: in the acknowledge-then-process handler, once an invocation has been
\* entered the 202 "Accepted" is the first thing it did, before the signature
\* validation and before any outbound call; at every later point, whatever
\* the outcome, it is the only response sent.
C19_AcceptedFirstAndOnly ==
    \A i \in InvIds :
        (inv[i].variant = "ack" /\ inv[i].pc \notin {"start", "off"})
        => /\ inv[i].sent = <<Accepted>>
           /\ inv[i].order[1] = "respond"
           /\ \A k \in 2..Len(inv[i].order) : inv[i].order[k] # "respond"

\* An invocation of the acknowledge handler has published its comment after
\* the 202 and the signature validation.
C19_Witness ==
    \E i \in InvIds :
        /\ inv[i].variant = "ack" /\ inv[i].pc = "done"
        /\ inv[i].order = <<"respond", "signature", "diff", "model", "comment">>
        /\ inv[i].sent = <<Accepted>>
        /\ Len(comments) = 1

\* The invocations that have started the comment publication.
Publishers == {i \in InvIds : inv[i].calls.comment > 0}

\* C20: in every state each invocation has issued the diff retrieval, the
\* model completion and the comment creation at most once each, whatever their
\* results, and there is at most one comment per inbound request that
\* reached the publication.
C20_AtMostOneAttempt ==
    /\ \A i \in InvIds :
          /\ inv[i].calls.diff <= 1
          /\ inv[i].calls.model <= 1
          /\ inv[i].calls.comment <= 1
          /\ \A k, l \in 1..Len(inv[i].order) :
                (k # l /\ inv[i].order[k] = inv[i].order[l])
                => inv[i].order[k] = "respond"
    /\ Len(comments) <= Cardinality(Publishers)

\* An invocation has ended after its comment creation was rejected, having
\* issued each call once.
C20_Witness ==
    \E i \in InvIds :
        /\ inv[i].pc = "done"
        /\ inv[i].calls = [diff |-> 1, model |-> 1, comment |-> 1]
        /\ Len(inv[i].caught) = 1
        /\ inv[i].caught[1].stage = "comment"
        /\ comments = <<>>

----------------------------------------------------------------------------
(* The order of the stages.                                                 *)

\* The calls invocation i has started that have not settled.
InFlight(i) ==
    Cardinality({s \in {"diff", "model", "comment"} :
                    inv[i].calls[s] > 0 /\ inv[i].settled[s] = "none"})

\* The Success response of the structured handler.
ReviewCompleted ==
    [status |-> 200, key |-> "message", text |-> "Review completed successfully",
     time |-> TRUE]

\* C21: in the structured handler the model call is started only once the
\* diff fetch has settled successfully with a diff that is not blank, the
\* comment publication only once the model call has settled with a response
\* that passed the validation, at most one outbound call is in flight, and a
\* terminated invocation has reported Success (200, "Review completed
\* successfully") exactly when createComment returned successfully.
C21_LinearStages ==
    \A i \in InvIds :
        inv[i].variant = "sync"
        => /\ inv[i].calls.model > 0
                => /\ inv[i].settled.diff = "ok"
                   /\ inv[i].fetched.t = "text"
                   /\ ~TrimIsEmpty(inv[i].fetched.s)
           /\ inv[i].calls.comment > 0
                => /\ inv[i].calls.model > 0
                   /\ inv[i].settled.model = "ok"
                   /\ GeminiCheck(inv[i].geminiResponse.data) = "ok"
           /\ InFlight(i) <= 1
           /\ inv[i].pc = "done"
                => ((inv[i].sent = <<ReviewCompleted>>)
                      <=> (inv[i].settled.comment = "ok"))

\* createComment has returned successfully and Success has been reported.
C21_Witness ==
    \E i \in InvIds :
        /\ inv[i].variant = "sync" /\ inv[i].pc = "done"
        /\ inv[i].settled = [diff |-> "ok", model |-> "ok", comment |-> "ok"]
        /\ inv[i].sent = <<ReviewCompleted>>
        /\ inv[i].order = <<"signature", "diff", "model", "comment", "respond">>

----------------------------------------------------------------------------
(* Invocations running at the same time.                                    *)

\* What one step of the handler can make of the locals r of an invocation
\* running alone in the configured environment.
SoloSteps(r) ==
    IF r.variant = "sync"
    THEN CASE r.pc = "start" ->
                {SyncReceive(r, env, ok) : ok \in BOOLEAN}
           [] r.pc = "awaitDiff" ->
                {SyncDiffReturn(Resumed(r, "diff", o), o) : o \in SyncDiffOutcomes}
           [] r.pc = "awaitGemini" ->
                {SyncGeminiReturn(Resumed(r, "model", o), o) : o \in GeminiOutcomes}
           [] r.pc = "awaitComment" ->
                {SyncCommentReturn(Resumed(r, "comment", o), o) :
                    o \in CommentOutcomes} \cup {[r EXCEPT !.pc = "hung"]}
           [] OTHER -> {}
    ELSE CASE r.pc = "start" -> {AckReceive(r, env)}
           [] r.pc = "awaitDiff" ->
                {AckDiffReturn(Resumed(r, "diff", o), o) : o \in AckDiffOutcomes}
                   \cup {[r EXCEPT !.pc = "hung"]}
           [] r.pc = "awaitGemini" ->
                {AckGeminiReturn(Resumed(r, "model", o), o) : o \in GeminiOutcomes}
                   \cup {[r EXCEPT !.pc = "hung"]}
           [] r.pc = "awaitComment" ->
                {AckCommentReturn(Resumed(r, "comment", o), o) :
                    o \in CommentOutcomes} \cup {[r EXCEPT !.pc = "hung"]}
           [] OTHER -> {}

\* The invocations whose createComment returned successfully.
Succeeded == {i \in InvIds : inv[i].settled.comment = "ok"}

\* Every step is a step of one invocation that it could take alone, leaves
\* the other invocations as they are, and adds its comment exactly when its
\* createComment returned successfully.
IndependentStep ==
    \E i \in InvIds :
        /\ inv'[i] \in SoloSteps(inv[i])
        /\ \A j \in InvIds \ {i} : inv'[j] = inv[j]
        /\ comments' = IF inv'[i].settled.comment = "ok"
                       THEN Append(comments, PublishedBy(inv[i]))
                       ELSE comments

\* C22: invocations running at the same time are independent - every step
\* of the system is a step one invocation could take alone and changes no
\* other invocation - and nothing is deduplicated: there are exactly as
\* many comments as invocations whose createComment returned successfully,
\* each the comment of one of them.
C22_IndependentInvocations ==
    /\ [](/\ Len(comments) = Cardinality(Succeeded)
          /\ \A k \in 1..Len(comments) :
                \E i \in Succeeded : comments[k] = PublishedBy(inv[i]))
    /\ [][IndependentStep]_vars

\* Two deliveries of the same event have both succeeded; the comment of the
\* second invocation was published before the different comment of the first.
C22_Witness ==
    /\ \A i \in InvIds :
          /\ inv[i].variant = "sync" /\ inv[i].pc = "done"
          /\ inv[i].sent = <<ReviewCompleted>>
          /\ inv[i].req = OpenedRequest
    /\ comments = <<PublishedBy(inv["i2"]), PublishedBy(inv["i1"])>>
    /\ comments[1] # comments[2]

----------------------------------------------------------------------------
(* The diff built from the list of changed files.                           *)

\* The file has a textual patch.
HasPatch(file) == Truthy(Get(file, "patch"))

\* C23: in the acknowledge handler the diff handed to the model call is the
\* patches of exactly the files that have one, in the order returned,
\* joined by single "\n" separators; a file without a patch adds neither
\* content nor a separator.
C23_DiffIsJoinOfTextualPatches ==
    \A i \in InvIds :
        (inv[i].variant = "ack" /\ inv[i].prompt # Null)
        => inv[i].diff = JoinPatches(SelectSeq(inv[i].fetched.a, HasPatch))

----------------------------------------------------------------------------
(* One response per invocation.                                             *)

\* The messages invocation i passed to logger.error.
ErrorsLogged(i) == {inv[i].errorLog[k] : k \in 1..Len(inv[i].errorLog)}

\* C24: the structured handler never sends a second response nor logs a
\* second completion; once it has terminated it has sent exactly one
\* response, the completion record carries that response's status, and
\* the response came from the finally block (it carries the elapsed time)
\* exactly on the success path and on the unexpected-error path.
C24_OneResponseLoggedStatus ==
    \A i \in InvIds :
        inv[i].variant = "sync"
        => /\ Len(inv[i].sent) <= 1
           /\ Len(inv[i].completionLog) <= 1
           /\ Len(SelectSeq(inv[i].order, LAMBDA e : e = "respond"))
                 = Len(inv[i].sent)
           /\ inv[i].pc = "done"
                => /\ Len(inv[i].sent) = 1
                   /\ inv[i].completionLog = <<inv[i].sent[1].status>>
                   /\ inv[i].sent[1].time
                        <=> \/ inv[i].settled.comment = "ok"
                            \/ "Unexpected error in webhook handler"
                                  \in ErrorsLogged(i)

\* An early exit has sent its response and finally has logged the same
\* status without sending again.
C24_Witness ==
    \E i \in InvIds :
        /\ inv[i].variant = "sync" /\ inv[i].pc = "done"
        /\ inv[i].sent = <<Unauthorized>>
        /\ inv[i].completionLog = <<401>>

====
